---- MODULE Spec2Model ----
(***************************************************************************)
(* Model of generate_maps.py: the incremental cache / history-ledger merge *)
(* of the field-map generator, its map layer construction and its colour   *)
(* bucket functions.                                                       *)
(*                                                                         *)
(* A calendar date 'YYYY-MM-DD' is modelled by a day number (string order  *)
(* of ISO dates is calendar order).  An image's system:index is the pair   *)
(* <<day, tile>>: its first eight characters give the day, the rest        *)
(* distinguishes images of the same day.  A pixel list is modelled by its  *)
(* length.  An index value is modelled in hundredths (0.2 is 20).          *)
(***************************************************************************)
EXTENDS Integers, Sequences, FiniteSets, TLC

\* ---------------------------------------------------------------- bounds
MaxDate == 2
NumFields == 2
MaxPx == 1
MaxTile == 1
MaxRuns == 2
MaxVal == 100

Dates == 1..MaxDate
Fields == 1..NumFields
Tiles == 1..MaxTile

\* A feature of the queried collection without a system:index property.
NoIndex == <<0, 0>>
Features == (Dates \X Tiles) \cup {NoIndex}

MapNames == {"index.html", "ndwi.html", "gndvi.html"}

\* ------------------------------------------------------------ file values
NoFile == [exists |-> FALSE]
TornFile == [exists |-> TRUE, readable |-> FALSE]
JsonFile(c) == [exists |-> TRUE, readable |-> TRUE, content |-> c]

\* ---------------------------------------------------------- dict helpers
EmptyDict == [k \in {} |-> 0]
Put(f, k, v) == [x \in (DOMAIN f) \cup {k} |-> IF x = k THEN v ELSE f[x]]

\* The set {1..n} of positions of a sequence holding value d.
Occurrences(s, d) == {i \in 1..Len(s) : s[i] = d}
InSeq(s, d) == Occurrences(s, d) # {}
Range(s) == {s[i] : i \in 1..Len(s)}

Min(S) == CHOOSE x \in S : \A y \in S : x <= y

\* sorted() of a set of keys: ascending sequence.
RECURSIVE SortedSet(_)
SortedSet(S) == IF S = {} THEN <<>> ELSE <<Min(S)>> \o SortedSet(S \ {Min(S)})

\* Remove position i from sequence s.
RemoveAt(s, i) == [j \in 1..(Len(s) - 1) |-> IF j < i THEN s[j] ELSE s[j + 1]]

\* sorted() of a list (duplicates kept).
RECURSIVE sorted(_)
sorted(s) ==
  IF s = <<>> THEN <<>>
  ELSE LET m == Min(Range(s))
           i == Min(Occurrences(s, m))
       IN <<m>> \o sorted(RemoveAt(s, i))

VARIABLES
  \* on disk
  history_file,      \* output/observation_history.json
  cache_files,       \* output/cache/<date>.json, one per date
  html_files,        \* output/index.html, ndwi.html, gndvi.html
  state_file,        \* last_processed.txt (0: absent)
  \* one run of the script
  pc, outcome, runs,
  force_rebuild, collection_info, image_count,
  history, all_dates_from_gee, new_dates, existing_dates,
  fields_info, date_idx, field_idx, date_cache, date_pixels,
  layers,
  \* log of the answers of the remote sample() calls made for the current
  \* date, per field; the dates that had a cache file when the run started
  sample_log, had_cache,
  \* colour functions
  cfun, cval, ccolor

disk == <<history_file, cache_files, html_files, state_file>>
mem == <<force_rebuild, collection_info, image_count, history,
         all_dates_from_gee, new_dates, existing_dates, fields_info,
         date_idx, field_idx, date_cache, date_pixels, layers,
         sample_log, had_cache>>
colour == <<cfun, cval, ccolor>>
vars == <<disk, mem, pc, outcome, runs, colour>>

EmptyHistory == [dates |-> <<>>, date_to_index |-> EmptyDict, pixel_counts |-> EmptyDict]
NoLayers == [m \in MapNames |-> <<>>]

FreshMemory ==
  /\ history = EmptyHistory
  /\ all_dates_from_gee = EmptyDict
  /\ new_dates = <<>> /\ existing_dates = <<>>
  /\ fields_info = [f \in Fields |-> "Polygon"]
  /\ date_idx = 1 /\ field_idx = 1
  /\ date_cache = EmptyDict /\ date_pixels = EmptyDict
  /\ layers = NoLayers
  /\ sample_log = [f \in Fields |-> <<>>]

\* A new process starts with none of the previous one's variables.
ResetMemory ==
  /\ history' = EmptyHistory
  /\ all_dates_from_gee' = EmptyDict
  /\ new_dates' = <<>> /\ existing_dates' = <<>>
  /\ fields_info' = [f \in Fields |-> "Polygon"]
  /\ date_idx' = 1 /\ field_idx' = 1
  /\ date_cache' = EmptyDict /\ date_pixels' = EmptyDict
  /\ layers' = NoLayers
  /\ sample_log' = [f \in Fields |-> <<>>]

InitRun ==
  /\ history_file = NoFile
  /\ cache_files = [d \in Dates |-> NoFile]
  /\ html_files = [m \in MapNames |-> NoFile]
  /\ state_file = 0
  /\ pc = "idle" /\ outcome = "none" /\ runs = 0
  /\ FreshMemory
  /\ force_rebuild = FALSE /\ collection_info = {} /\ image_count = 0
  /\ had_cache = {}

Init ==
  /\ InitRun
  /\ cfun = "none" /\ cval = [kind |-> "none", v |-> 0] /\ ccolor = "none"

\* ------------------------------------------------------------------ a run
\* The script is started with --force-rebuild = f; the imagery query yields
\* the features q.  Lines 82-95: image_count == 0 without force exits.
\* Line 93.
SkipNoImages(f, n) == n = 0 /\ ~f

StartRun(f, q) ==
  /\ pc = "idle" /\ runs < MaxRuns
  /\ runs' = runs + 1
  /\ force_rebuild' = f
  /\ collection_info' = q
  /\ image_count' = Cardinality(q)
  /\ had_cache' = {d \in Dates : cache_files[d].exists}
  /\ ResetMemory
  /\ IF SkipNoImages(f, Cardinality(q))
        THEN pc' = "idle" /\ outcome' = "skipped"
        ELSE pc' = "load" /\ outcome' = "running"
  /\ UNCHANGED <<disk, colour>>

\* A variant of lines 100-111 that starts an empty ledger under force.
LoadHistory_ForceEmpty ==
  /\ pc = "load"
  /\ IF history_file.exists /\ ~history_file.readable
        THEN /\ pc' = "idle" /\ outcome' = "error_history"
             /\ UNCHANGED history
        ELSE /\ pc' = "dates" /\ UNCHANGED outcome
             /\ history' = IF history_file.exists /\ ~force_rebuild
                              THEN history_file.content ELSE EmptyHistory
  /\ UNCHANGED <<disk, colour, runs, force_rebuild, collection_info, image_count,
                 all_dates_from_gee, new_dates, existing_dates, fields_info,
                 date_idx, field_idx, date_cache, date_pixels, layers,
                 sample_log, had_cache>>

\* Lines 100-111: read the ledger or start an empty one.  json.load raises
\* on a file whose write was cut short.
LoadHistory ==
  /\ pc = "load"
  /\ IF history_file.exists /\ ~history_file.readable
        THEN /\ pc' = "idle" /\ outcome' = "error_history"
             /\ UNCHANGED history
        ELSE /\ pc' = "dates" /\ UNCHANGED outcome
             /\ history' = IF history_file.exists THEN history_file.content
                                                   ELSE EmptyHistory
  /\ UNCHANGED <<disk, colour, runs, force_rebuild, collection_info, image_count,
                 all_dates_from_gee, new_dates, existing_dates, fields_info,
                 date_idx, field_idx, date_cache, date_pixels, layers,
                 sample_log, had_cache>>

\* Lines 116-126: one dict entry per calendar date; a feature without
\* system:index is skipped; of several images of one day the one iterated
\* last stays (the order of the collection is the service's).
DateOf(idx) == idx[1]
IndexedFeatures(q) == q \ {NoIndex}
GetDates ==
  /\ pc = "dates"
  /\ LET ds == {DateOf(x) : x \in IndexedFeatures(collection_info)}
     IN \E a \in [ds -> IndexedFeatures(collection_info)] :
          /\ \A d \in ds : DateOf(a[d]) = d
          /\ all_dates_from_gee' = a
  /\ pc' = "classify"
  /\ UNCHANGED <<disk, colour, runs, outcome, force_rebuild, collection_info,
                 image_count, history, new_dates, existing_dates, fields_info,
                 date_idx, field_idx, date_cache, date_pixels, layers,
                 sample_log, had_cache>>

\* Variants of the test of line 135: one that forgets the force flag, one
\* that takes every date as new.
IsNewDate_NoForce(d) == ~cache_files[d].exists
IsNewDate_Always(d) == TRUE

\* A variant of line 135 that asks the ledger instead of the cache directory.
IsNewDate_Ledger(d) == force_rebuild \/ ~InSeq(history.dates, d)

\* Line 135: the test that sends a date to new_dates.
IsNewDate(d) == force_rebuild \/ ~cache_files[d].exists

\* Lines 137-141: the date_to_index entry after classifying date d.
ClassifiedIndex(d2i, d) ==
  IF IsNewDate(d) THEN all_dates_from_gee[d]
  ELSE IF d \notin DOMAIN d2i THEN all_dates_from_gee[d] ELSE d2i[d]

\* A variant of line 146 that never leaves early.
SkipNoNewDates_Never(nd) == FALSE

\* Line 146.
SkipNoNewDates(nd) == Len(nd) = 0 /\ ~force_rebuild

\* Lines 129-148.
Classify ==
  /\ pc = "classify"
  /\ LET keys == SortedSet(DOMAIN all_dates_from_gee)
         nd == SelectSeq(keys, LAMBDA d : IsNewDate(d))
         ed == SelectSeq(keys, LAMBDA d : ~IsNewDate(d))
         d2i == [d \in (DOMAIN history.date_to_index) \cup (DOMAIN all_dates_from_gee) |->
                   IF d \in DOMAIN all_dates_from_gee
                     THEN ClassifiedIndex(history.date_to_index, d)
                     ELSE history.date_to_index[d]]
     IN /\ new_dates' = nd
        /\ existing_dates' = ed
        /\ history' = [history EXCEPT !.date_to_index = d2i]
        /\ IF SkipNoNewDates(nd)
              THEN pc' = "idle" /\ outcome' = "skipped"
              ELSE pc' = "fields" /\ UNCHANGED outcome
  /\ UNCHANGED <<disk, colour, runs, force_rebuild, collection_info, image_count,
                 all_dates_from_gee, fields_info, date_idx, field_idx,
                 date_cache, date_pixels, layers, sample_log, had_cache>>

\* Line 152: the field polygons, each with its geometry type.
GetFieldsInfo ==
  /\ pc = "fields"
  /\ fields_info' \in [Fields -> {"Polygon", "MultiPolygon"}]
  /\ date_idx' = 1
  /\ pc' = "date"
  /\ UNCHANGED <<disk, colour, runs, outcome, force_rebuild, collection_info,
                 image_count, history, all_dates_from_gee, new_dates,
                 existing_dates, field_idx, date_cache, date_pixels, layers,
                 sample_log, had_cache>>

\* Lines 201-213: head of the loop over new_dates.
NextDate ==
  /\ pc = "date"
  /\ IF date_idx > Len(new_dates)
        THEN /\ pc' = "render"
             /\ UNCHANGED <<date_cache, date_pixels, sample_log, field_idx>>
        ELSE LET date == new_dates[date_idx]
             IN /\ date_cache' = Put(date_cache, date, [date |-> date, fields |-> <<>>])
                /\ date_pixels' = Put(date_pixels, date, 0)
                /\ sample_log' = [f \in Fields |-> <<>>]
                /\ field_idx' = 1
                /\ pc' = IF NumFields = 0 THEN "write" ELSE "sample"
  /\ UNCHANGED <<disk, colour, runs, outcome, force_rebuild, collection_info,
                 image_count, history, all_dates_from_gee, new_dates,
                 existing_dates, fields_info, date_idx, layers, had_cache>>

\* Lines 228-232: what the remote sample() call can give back for a field:
\* an exception, an answer without 'features', or n features of which
\* valid have both a geometry and properties.
SampleResults ==
  {[kind |-> "error", n |-> 0, valid |-> 0],
   [kind |-> "nofeatures", n |-> 0, valid |-> 0]}
  \cup UNION {{[kind |-> "ok", n |-> n, valid |-> v] : v \in 0..n} : n \in 0..MaxPx}

\* A variant of the loop that asks again for a field whose call raised.
FieldAfter_Retry(f, s) == IF s.kind = "error" THEN f ELSE f + 1

\* Lines 215, 267-269: the field looked at after field f, whatever s was.
FieldAfter(f, s) == f + 1

\* Lines 234-264: the date's record and pixel total after the answer s for
\* field f.
RecordAfter(rec, f, s) ==
  IF s.kind = "ok"
    THEN [rec EXCEPT !.fields = Append(@, [polygon_uu |-> f, pixels |-> s.valid])]
    ELSE rec
PixelsAfter(px, s) == IF s.kind = "ok" THEN px + s.n ELSE px

\* Lines 215-269: one iteration of the loop over the fields.
SampleField ==
  /\ pc = "sample"
  /\ LET date == new_dates[date_idx]
         f == field_idx
     IN IF fields_info[f] # "Polygon"
          THEN /\ field_idx' = f + 1
               /\ pc' = IF f + 1 > NumFields THEN "write" ELSE "sample"
               /\ UNCHANGED <<date_cache, date_pixels, sample_log>>
          ELSE \E s \in SampleResults :
               /\ sample_log' = [sample_log EXCEPT ![f] = Append(@, s)]
               /\ date_cache' = [date_cache EXCEPT ![date] = RecordAfter(@, f, s)]
               /\ date_pixels' = [date_pixels EXCEPT ![date] = PixelsAfter(@, s)]
               /\ field_idx' = FieldAfter(f, s)
               /\ pc' = IF FieldAfter(f, s) > NumFields THEN "write" ELSE "sample"
  /\ UNCHANGED <<disk, colour, runs, outcome, force_rebuild, collection_info,
                 image_count, history, all_dates_from_gee, new_dates,
                 existing_dates, fields_info, date_idx, layers, had_cache>>

\* A variant of lines 272-274 that saves no file for a date without any
\* field record.
WriteCache_SkipEmpty ==
  /\ pc = "write"
  /\ LET date == new_dates[date_idx]
     IN cache_files' = IF date_cache[date].fields = <<>> THEN cache_files
                       ELSE [cache_files EXCEPT ![date] = JsonFile(date_cache[date])]
  /\ pc' = "update"
  /\ UNCHANGED <<history_file, html_files, state_file, colour, runs, outcome, mem>>

\* Lines 272-274.
WriteCache ==
  /\ pc = "write"
  /\ LET date == new_dates[date_idx]
     IN cache_files' = [cache_files EXCEPT ![date] = JsonFile(date_cache[date])]
  /\ pc' = "update"
  /\ UNCHANGED <<history_file, html_files, state_file, colour, runs, outcome, mem>>

\* A variant of lines 276-277 without the membership test.
DatesAfter_Append(dates, date) == Append(dates, date)

\* Lines 276-277: the dates list after processing date.
DatesAfter(dates, date) == IF InSeq(dates, date) THEN dates ELSE Append(dates, date)

\* A variant of line 278 that records no count for a date without pixels.
PixelCountsAfter_SkipZero(counts, date, px) ==
  IF px = 0 THEN counts ELSE Put(counts, date, px)

\* Line 278.
PixelCountsAfter(counts, date, px) == Put(counts, date, px)

\* Lines 276-278.
UpdateHistory ==
  /\ pc = "update"
  /\ LET date == new_dates[date_idx]
     IN history' = [history EXCEPT
                      !.dates = DatesAfter(@, date),
                      !.pixel_counts = PixelCountsAfter(@, date, date_pixels[date])]
  /\ date_idx' = date_idx + 1
  /\ pc' = "date"
  /\ UNCHANGED <<disk, colour, runs, outcome, force_rebuild, collection_info,
                 image_count, all_dates_from_gee, new_dates, existing_dates,
                 fields_info, field_idx, date_cache, date_pixels, layers,
                 sample_log, had_cache>>

\* A variant of line 305 that shows the oldest date.
show_layer_First(date, all_dates) == date = all_dates[1]

\* Line 305.
show_layer(date, all_dates) == date = all_dates[Len(all_dates)]

LayerPrefix(m) ==
  CASE m = "index.html" -> "NDVI"
    [] m = "ndwi.html" -> "NDWI"
    [] m = "gndvi.html" -> "GNDVI"

\* Lines 292-308, 373-375: the layers added to one map, in order.
RECURSIVE LayersOf(_, _, _)
LayersOf(m, all_dates, i) ==
  IF i > Len(all_dates) THEN <<>>
  ELSE LET date == all_dates[i]
       IN IF ~cache_files[date].exists
            THEN LayersOf(m, all_dates, i + 1)
            ELSE <<[name |-> <<LayerPrefix(m), date>>,
                    show |-> show_layer(date, all_dates)]>>
                 \o LayersOf(m, all_dates, i + 1)

\* Lines 285-378.  json.load raises on a cache file whose write was cut short.
Render ==
  /\ pc = "render"
  /\ LET all_dates == sorted(history.dates)
     IN IF \E d \in Range(all_dates) :
             cache_files[d].exists /\ ~cache_files[d].readable
          THEN /\ pc' = "idle" /\ outcome' = "error_cache"
               /\ UNCHANGED layers
          ELSE /\ layers' = [m \in MapNames |-> LayersOf(m, all_dates, 1)]
               /\ pc' = "title" /\ UNCHANGED outcome
  /\ UNCHANGED <<disk, colour, runs, force_rebuild, collection_info,
                 image_count, history, all_dates_from_gee, new_dates,
                 existing_dates, fields_info, date_idx, field_idx, date_cache,
                 date_pixels, sample_log, had_cache>>

\* Lines 416-429: the titles index all_dates[0], all_dates[-1] and
\* new_dates[-1]; an empty list raises IndexError.
Title ==
  /\ pc = "title"
  /\ IF sorted(history.dates) = <<>> \/ new_dates = <<>>
       THEN pc' = "idle" /\ outcome' = "error_title"
       ELSE pc' = "save_maps" /\ UNCHANGED outcome
  /\ UNCHANGED <<disk, colour, runs, mem>>

\* Lines 657-659.
SaveMaps ==
  /\ pc = "save_maps"
  /\ html_files' = [m \in MapNames |-> JsonFile(layers[m])]
  /\ pc' = "save_history"
  /\ UNCHANGED <<history_file, cache_files, state_file, colour, runs, outcome, mem>>

\* Lines 666-667.
SaveHistory ==
  /\ pc = "save_history"
  /\ history_file' = JsonFile(history)
  /\ pc' = "save_state"
  /\ UNCHANGED <<cache_files, html_files, state_file, colour, runs, outcome, mem>>

\* Lines 669-672.
SaveState ==
  /\ pc = "save_state"
  /\ state_file' = IF new_dates # <<>> THEN new_dates[Len(new_dates)] ELSE state_file
  /\ pc' = "idle" /\ outcome' = "done"
  /\ UNCHANGED <<history_file, cache_files, html_files, colour, runs, mem>>

\* ------------------------------------------------------------ environment
\* The process is killed between two statements: its memory is lost.
Killed ==
  /\ pc' = "idle" /\ outcome' = "killed"
  /\ ResetMemory
  /\ UNCHANGED <<runs, force_rebuild, collection_info, image_count, had_cache, colour>>

Interrupt ==
  /\ pc # "idle"
  /\ Killed
  /\ UNCHANGED disk

\* The process is killed inside the write of lines 273-274: open(.., 'w')
\* has truncated the file and the JSON text is incomplete.
InterruptCacheWrite ==
  /\ pc = "write"
  /\ cache_files' = [cache_files EXCEPT ![new_dates[date_idx]] = TornFile]
  /\ Killed
  /\ UNCHANGED <<history_file, html_files, state_file>>

\* The same inside the write of lines 666-667.
InterruptHistoryWrite ==
  /\ pc = "save_history"
  /\ history_file' = TornFile
  /\ Killed
  /\ UNCHANGED <<cache_files, html_files, state_file>>

\* A cache file is removed from outside the program, between two runs (no
\* process is alive: nothing of the last run's memory is left).
DeleteCache(d) ==
  /\ pc = "idle"
  /\ cache_files[d].exists
  /\ cache_files' = [cache_files EXCEPT ![d] = NoFile]
  /\ outcome' = "none"
  /\ ResetMemory
  /\ UNCHANGED <<history_file, html_files, state_file, colour, runs, pc,
                 force_rebuild, collection_info, image_count, had_cache>>

Next ==
  \/ \E f \in BOOLEAN, q \in SUBSET Features : StartRun(f, q)
  \/ LoadHistory
  \/ GetDates
  \/ Classify
  \/ GetFieldsInfo
  \/ NextDate
  \/ SampleField
  \/ WriteCache
  \/ UpdateHistory
  \/ Render
  \/ Title
  \/ SaveMaps
  \/ SaveHistory
  \/ SaveState
  \/ Interrupt
  \/ InterruptCacheWrite
  \/ InterruptHistoryWrite

Spec == Init /\ [][Next]_vars

\* The program together with removal of cache files from outside.
NextExt == Next \/ \E d \in Dates : DeleteCache(d)
SpecExt == Init /\ [][NextExt]_vars

\* ------------------------------------------------------- colour functions
\* An index value: None, NaN or a number (in hundredths).
None == [kind |-> "none", v |-> 0]
NaN == [kind |-> "nan", v |-> 0]
Num(v) == [kind |-> "num", v |-> v]
Values == {None, NaN} \cup {Num(v) : v \in (0 - MaxVal)..MaxVal}

\* Line 160, 173, 186: x is None or np.isnan(x).
IsMissing(x) == x.kind = "none" \/ x.kind = "nan"

\* A variant of lines 159-170 with the comparisons inclusive.
get_ndvi_color_Inclusive(ndvi) ==
  IF IsMissing(ndvi) THEN "#808080"
  ELSE IF ndvi.v <= 20 THEN "#d73027"
  ELSE IF ndvi.v <= 40 THEN "#fc8d59"
  ELSE IF ndvi.v <= 60 THEN "#fee08b"
  ELSE IF ndvi.v <= 80 THEN "#91cf60"
  ELSE "#1a9850"

\* Lines 159-170.
get_ndvi_color(ndvi) ==
  IF IsMissing(ndvi) THEN "#808080"
  ELSE IF ndvi.v < 20 THEN "#d73027"
  ELSE IF ndvi.v < 40 THEN "#fc8d59"
  ELSE IF ndvi.v < 60 THEN "#fee08b"
  ELSE IF ndvi.v < 80 THEN "#91cf60"
  ELSE "#1a9850"

\* Lines 172-183.
get_ndwi_color(ndwi) ==
  IF IsMissing(ndwi) THEN "#808080"
  ELSE IF ndwi.v < -30 THEN "#8B4513"
  ELSE IF ndwi.v < -10 THEN "#D2691E"
  ELSE IF ndwi.v < 10 THEN "#F4A460"
  ELSE IF ndwi.v < 30 THEN "#87CEEB"
  ELSE "#4169E1"

\* Lines 185-196.
get_gndvi_color(gndvi) ==
  IF IsMissing(gndvi) THEN "#808080"
  ELSE IF gndvi.v < 20 THEN "#FFFF00"
  ELSE IF gndvi.v < 40 THEN "#9ACD32"
  ELSE IF gndvi.v < 60 THEN "#32CD32"
  ELSE IF gndvi.v < 80 THEN "#228B22"
  ELSE "#006400"

\* Lines 326-363: the renderer colours a pixel's three index values.
ColourNdvi ==
  /\ cfun' = "ndvi" /\ ccolor' = get_ndvi_color(cval)
  /\ UNCHANGED <<cval, disk, mem, pc, outcome, runs>>
ColourNdwi ==
  /\ cfun' = "ndwi" /\ ccolor' = get_ndwi_color(cval)
  /\ UNCHANGED <<cval, disk, mem, pc, outcome, runs>>
ColourGndvi ==
  /\ cfun' = "gndvi" /\ ccolor' = get_gndvi_color(cval)
  /\ UNCHANGED <<cval, disk, mem, pc, outcome, runs>>

ColourInit ==
  /\ InitRun
  /\ cfun = "none" /\ ccolor = "none"
  /\ cval \in Values
ColourNext == ColourNdvi \/ ColourNdwi \/ ColourGndvi
ColourSpec == ColourInit /\ [][ColourNext]_vars

\* ================================================================ claims
Available == DOMAIN all_dates_from_gee

\* The run has got past the classification of lines 129-144.
Classified ==
  \/ pc \in {"fields", "date", "sample", "write", "update", "render", "title",
             "save_maps", "save_history", "save_state"}
  \/ pc = "idle" /\ outcome \in {"done", "error_cache", "error_title"}
  \/ pc = "idle" /\ outcome = "skipped" /\ image_count > 0

NoDuplicates(s) == \A i, j \in 1..Len(s) : s[i] = s[j] => i = j

\* C1: once a run has classified the available dates (one per calendar day
\* of the features that carry a system:index), new_dates holds exactly the
\* available dates that are forced or had no cache file when the run
\* started, existing_dates holds exactly the others, no date is in both and
\* none is listed twice.
C1_Classification ==
  Classified =>
    /\ Available = {DateOf(x) : x \in IndexedFeatures(collection_info)}
    /\ Range(new_dates) = {d \in Available : force_rebuild \/ d \notin had_cache}
    /\ Range(existing_dates) = {d \in Available : ~force_rebuild /\ d \in had_cache}
    /\ Range(new_dates) \cap Range(existing_dates) = {}
    /\ Range(new_dates) \cup Range(existing_dates) = Available
    /\ NoDuplicates(new_dates) /\ NoDuplicates(existing_dates)

\* A run without force that found one cached and one uncached date.
C1_Witness ==
  /\ Classified /\ ~force_rebuild
  /\ new_dates # <<>> /\ existing_dates # <<>>

\* C2: in a run without force, no step up to and including classification
\* changes a file on disk; the start of a run whose query has no image
\* ends it as skipped; and classification with every available date cached
\* ends the run (skipped, unless the process is killed) without going on to
\* processing.
C2_EarlyExitKeepsDisk ==
  [][ /\ ((pc = "idle" /\ pc' # "idle") \/ pc \in {"load", "dates", "classify"})
         => UNCHANGED disk
      /\ (pc = "idle" /\ runs' # runs /\ ~force_rebuild' /\ image_count' = 0)
         => (pc' = "idle" /\ outcome' = "skipped" /\ UNCHANGED disk)
      /\ (pc = "classify" /\ ~force_rebuild /\ Available \subseteq had_cache)
         => (pc' = "idle" /\ outcome' \in {"skipped", "killed"})
    ]_vars

\* A skipped run that changed date_to_index in memory while no ledger file
\* exists on disk.
C2_Witness ==
  /\ pc = "idle" /\ outcome = "skipped" /\ ~force_rebuild
  /\ image_count > 0 /\ existing_dates # <<>>
  /\ history.date_to_index # EmptyDict
  /\ ~history_file.exists

\* A skipped run whose query had no image.
C2_WitnessNoImage ==
  pc = "idle" /\ outcome = "skipped" /\ image_count = 0 /\ had_cache # {}

\* C3: no step of a run without force changes a cache file that exists.
C3_NoRewriteWithoutForce ==
  [][ (~force_rebuild /\ pc # "idle")
        => \A d \in Dates : cache_files[d].exists => cache_files'[d] = cache_files[d]
    ]_vars

\* A completed run without force that wrote a new date next to a cached one.
C3_Witness ==
  /\ pc = "idle" /\ outcome = "done" /\ ~force_rebuild
  /\ existing_dates # <<>> /\ new_dates # <<>>
  /\ \A d \in Range(existing_dates) : cache_files[d].exists

LedgerDates == IF history_file.exists /\ history_file.readable
                 THEN history_file.content.dates ELSE <<>>

\* C4: with no file removed from outside, every date of the ledger on disk
\* has a cache file, and so has every date of the ledger held in memory (a
\* date is appended only after its cache file is written).
C4_LedgerDatesHaveCache ==
  /\ \A d \in Range(LedgerDates) : cache_files[d].exists
  /\ \A d \in Range(history.dates) : cache_files[d].exists

\* After a completed and then a killed run: the ledger lists a date, and a
\* cache file was written for a date the ledger does not list.
C4_Witness ==
  /\ pc = "idle" /\ outcome = "killed"
  /\ LedgerDates # <<>>
  /\ \E d \in Dates : cache_files[d].exists /\ d \notin Range(LedgerDates)

Max(S) == CHOOSE x \in S : \A y \in S : y <= x

\* C5: after a completed force-rebuild run, every available date that had a
\* cache file when the run started has as cache file the record built in
\* this run, has in the ledger on disk the pixel count computed in this run,
\* and is listed exactly once in the ledger's dates.
C5_ForceRebuildOverwrites ==
  (pc = "idle" /\ outcome = "done" /\ force_rebuild) =>
    \A d \in Available \cap had_cache :
      /\ d \in DOMAIN date_cache
      /\ cache_files[d] = JsonFile(date_cache[d])
      /\ d \in DOMAIN history_file.content.pixel_counts
      /\ history_file.content.pixel_counts[d] = date_pixels[d]
      /\ Cardinality(Occurrences(history_file.content.dates, d)) = 1

\* A completed force-rebuild run over a date that was cached and listed.
C5_Witness ==
  /\ pc = "idle" /\ outcome = "done" /\ force_rebuild
  /\ \E d \in Available \cap had_cache : d \in DOMAIN date_cache

LayerDates(ls) == [i \in 1..Len(ls) |-> ls[i].name[2]]
Visible(ls) == {ls[i].name[2] : i \in {j \in 1..Len(ls) : ls[j].show}}

\* C6: the first run, started with no ledger and no cache file, when it
\* completes with n available dates, has n >= 1, leaves a cache file for
\* exactly those dates, a ledger on disk listing exactly those dates once
\* each with a date_to_index and a pixel_counts entry, and in each map one
\* layer per date in ascending order of which only the latest is shown.
C6_FirstRun ==
  (runs = 1 /\ pc = "idle" /\ outcome = "done") =>
    /\ Cardinality(Available) >= 1
    /\ {d \in Dates : cache_files[d].exists} = Available
    /\ \A d \in Available : cache_files[d].readable
    /\ history_file.exists /\ history_file.readable
    /\ Range(history_file.content.dates) = Available
    /\ Len(history_file.content.dates) = Cardinality(Available)
    /\ \A d \in Available : /\ d \in DOMAIN history_file.content.date_to_index
                            /\ d \in DOMAIN history_file.content.pixel_counts
    /\ \A m \in MapNames :
         /\ html_files[m].exists
         /\ LayerDates(html_files[m].content) = SortedSet(Available)
         /\ \A i \in 1..Len(html_files[m].content) :
              html_files[m].content[i].name[1] = LayerPrefix(m)
         /\ Visible(html_files[m].content) = {Max(Available)}

\* The first run completed with two dates.
C6_Witness ==
  /\ runs = 1 /\ pc = "idle" /\ outcome = "done"
  /\ Cardinality(Available) = 2

\* The maps of the run have been built (lines 285-378).
Rendered ==
  \/ pc \in {"title", "save_maps", "save_history", "save_state"}
  \/ pc = "idle" /\ outcome \in {"done", "error_title"}

\* C7: in each map built by a run, a layer is shown exactly when its date is
\* the greatest date of the ledger held by the run, so at most one date is
\* shown; the saved map files are those maps.
C7_OnlyLatestVisible ==
  /\ Rendered =>
       \A m \in MapNames :
         /\ \A i \in 1..Len(layers[m]) :
              layers[m][i].show <=> (layers[m][i].name[2] = Max(Range(history.dates)))
         /\ Cardinality(Visible(layers[m])) <= 1
         /\ NoDuplicates(LayerDates(layers[m]))
  /\ (pc = "idle" /\ outcome = "done") =>
       \A m \in MapNames : html_files[m] = JsonFile(layers[m])

\* Maps with a layer and none shown: the cache file of the greatest ledger
\* date is missing.
C7_Witness ==
  /\ Rendered
  /\ \A m \in MapNames : Len(layers[m]) >= 1 /\ Visible(layers[m]) = {}
  /\ ~cache_files[Max(Range(history.dates))].exists

RECURSIVE SumN(_, _)
SumN(log, S) ==
  IF S = {} THEN 0
  ELSE LET f == Min(S) IN log[f][1].n + SumN(log, S \ {f})

\* The fields whose sample() call of the current date gave features.
OkFields == {f \in Fields : sample_log[f] # <<>> /\ sample_log[f][1].kind = "ok"}
\* The fields whose sample() call of the current date raised.
FailedFields == {f \in Fields : sample_log[f] # <<>> /\ sample_log[f][1].kind = "error"}
RecordedFields(rec) == {rec.fields[i].polygon_uu : i \in 1..Len(rec.fields)}

\* C8: while and after a new date is processed, no field is sampled twice;
\* a field whose call raised has no record in the date's record and adds
\* nothing to the date's pixel count; once the loop over the fields is over
\* every Polygon field has been sampled once and the date's record holds, in
\* field order, the fields that gave features; the cache file is then
\* written with that record and the date is in the run's ledger with that
\* pixel count, whatever number of fields failed.
C8_FieldFailureSkipsField ==
  /\ \A f \in Fields : Len(sample_log[f]) <= 1
  /\ pc \in {"sample", "write", "update"} =>
       LET d == new_dates[date_idx]
       IN /\ RecordedFields(date_cache[d]) \cap FailedFields = {}
          /\ RecordedFields(date_cache[d]) = OkFields
          /\ date_pixels[d] = SumN(sample_log, OkFields)
  /\ pc \in {"write", "update"} =>
       LET d == new_dates[date_idx]
       IN /\ \A f \in Fields : fields_info[f] = "Polygon" => Len(sample_log[f]) = 1
          /\ date_cache[d].fields =
               [i \in 1..Cardinality(OkFields) |->
                  [polygon_uu |-> SortedSet(OkFields)[i],
                   pixels |-> sample_log[SortedSet(OkFields)[i]][1].valid]]
  /\ pc = "update" =>
       cache_files[new_dates[date_idx]] = JsonFile(date_cache[new_dates[date_idx]])
  /\ (pc = "date" /\ date_idx > 1) =>
       LET d == new_dates[date_idx - 1]
       IN /\ cache_files[d] = JsonFile(date_cache[d])
          /\ InSeq(history.dates, d)
          /\ history.pixel_counts[d] = date_pixels[d]
          /\ date_pixels[d] = SumN(sample_log, OkFields)

\* A date just processed with one field failed and another recorded.
C8_Witness ==
  /\ pc = "date" /\ date_idx > 1
  /\ FailedFields # {} /\ OkFields # {}
  /\ cache_files[new_dates[date_idx - 1]].exists
  /\ InSeq(history.dates, new_dates[date_idx - 1])

\* A date just processed with every field failed.
C8_WitnessAllFailed ==
  /\ pc = "date" /\ date_idx > 1
  /\ FailedFields = Fields
  /\ cache_files[new_dates[date_idx - 1]] =
       JsonFile([date |-> new_dates[date_idx - 1], fields |-> <<>>])
  /\ InSeq(history.dates, new_dates[date_idx - 1])

MissingCache == {d \in Range(history.dates) : ~cache_files[d].exists}

\* C9: a run that has rendered while a date of its ledger had no cache file
\* gave that date no layer and every other ledger date its layer, is not
\* stopped, and at its end has saved the maps and the ledger, the date
\* still listed.
C9_MissingCacheSkipped ==
  /\ (Rendered /\ MissingCache # {}) =>
       /\ \A m \in MapNames :
            Range(LayerDates(layers[m])) = Range(history.dates) \ MissingCache
       /\ ~(pc = "idle" /\ outcome = "error_title")
  /\ (pc = "idle" /\ outcome = "done" /\ MissingCache # {}) =>
       /\ \A m \in MapNames : html_files[m] = JsonFile(layers[m])
       /\ history_file = JsonFile(history)

\* A completed run whose ledger lists a date without cache file.
C9_Witness ==
  /\ pc = "idle" /\ outcome = "done" /\ MissingCache # {}
  /\ Range(history.dates) # MissingCache

NdviThresholds == {20, 40, 60, 80}
NdwiThresholds == {-30, -10, 10, 30}
Bucket(T, v) == 1 + Cardinality({t \in T : t <= v})
NdviColours == <<"#d73027", "#fc8d59", "#fee08b", "#91cf60", "#1a9850">>
NdwiColours == <<"#8B4513", "#D2691E", "#F4A460", "#87CEEB", "#4169E1">>
GndviColours == <<"#FFFF00", "#9ACD32", "#32CD32", "#228B22", "#006400">>

\* C10: each colour function gives gray #808080 for None and NaN, and for a
\* number the colour of its bucket, the bucket being the count of thresholds
\* not above the value (lower bound inclusive, upper bound exclusive).
C10_ColourBuckets ==
  /\ (cfun # "none" /\ IsMissing(cval)) => ccolor = "#808080"
  /\ (cfun = "ndvi" /\ ~IsMissing(cval)) => ccolor = NdviColours[Bucket(NdviThresholds, cval.v)]
  /\ (cfun = "ndwi" /\ ~IsMissing(cval)) => ccolor = NdwiColours[Bucket(NdwiThresholds, cval.v)]
  /\ (cfun = "gndvi" /\ ~IsMissing(cval)) => ccolor = GndviColours[Bucket(NdviThresholds, cval.v)]

\* NDVI exactly 0.2 coloured #fc8d59.
C10_Witness ==
  cfun = "ndvi" /\ cval = Num(20) /\ ccolor = "#fc8d59"

\* C11: a run whose query returned no image, with or without force, that
\* has ended otherwise than by a kill has ended as skipped: it never ends
\* in an error.
C11_NoImageryIsNormalExit ==
  (pc = "idle" /\ runs >= 1 /\ image_count = 0 /\ outcome \notin {"none", "killed"})
    => outcome = "skipped"

CachedDates == {d \in Dates : cache_files[d].exists}

\* The step leaves the ledger file cut short (the process was killed inside
\* the write of lines 666-667).
LedgerWriteCutShort == history_file'.exists /\ ~history_file'.readable

\* C12 as stated: no step of any run takes a date out of the dates list of
\* the ledger on disk or takes a cache file away.
C12_NeverShrinks ==
  [][ /\ Range(LedgerDates) \subseteq Range(LedgerDates')
      /\ CachedDates \subseteq CachedDates'
    ]_vars

\* C12 amended: no step takes a cache file away, and no step other than a
\* ledger write cut short by a kill takes a date out of the dates list of
\* the ledger on disk; this holds for force-rebuild runs and for dates the
\* query does not return.
C12_NeverShrinksUnlessCutShort ==
  [][ /\ CachedDates \subseteq CachedDates'
      /\ ~LedgerWriteCutShort => Range(LedgerDates) \subseteq Range(LedgerDates')
    ]_vars

\* A completed force-rebuild run whose ledger still lists, with its cache
\* file, a date that the query did not return.
C12_Witness ==
  /\ pc = "idle" /\ outcome = "done" /\ force_rebuild
  /\ \E d \in Range(LedgerDates) : d \notin Available /\ cache_files[d].exists

RECURSIVE StoredPixels(_)
\* The number of pixel records of a date's record, over its field records.
StoredPixels(fields) ==
  IF fields = <<>> THEN 0
  ELSE fields[1].pixels + StoredPixels(Tail(fields))

\* C13: once a date has been processed, the pixel count the run's ledger
\* holds for it is the number of pixel records stored in the date's cache
\* file; the same holds of the ledger on disk after a completed run.
C13_PixelCountIsStoredPixels ==
  /\ (pc = "date" /\ date_idx > 1) =>
       LET d == new_dates[date_idx - 1]
       IN history.pixel_counts[d] = StoredPixels(cache_files[d].content.fields)
  /\ (pc = "idle" /\ outcome = "done") =>
       \A d \in Range(new_dates) :
         history_file.content.pixel_counts[d] = StoredPixels(cache_files[d].content.fields)

\* The dates that had a cache file when the run started and are not in the
\* dates list of the ledger on disk: left behind by a run that was killed
\* after the cache write and before the ledger write.
Orphans == {d \in had_cache : d \notin Range(LedgerDates)}

\* The run has not yet come to its ledger write: the ledger on disk is the
\* one the run started with.
BeforeLedgerWrite ==
  pc \in {"dates", "classify", "fields", "date", "sample", "write", "update",
          "render", "title", "save_maps", "save_history"}

\* C14: in a run without force, a date that has a cache file but is not in
\* the ledger is never in new_dates, is classified as existing when the
\* query returns it, is not put in the run's dates list, gets no
\* pixel_counts entry and no layer; and a step puts such a date in the
\* ledger on disk only in a force-rebuild run whose query returned it.
C14_OrphanStaysOut ==
  /\ [](  (BeforeLedgerWrite /\ ~force_rebuild) =>
            \A d \in Orphans :
              /\ ~InSeq(new_dates, d)
              /\ (Classified /\ d \in Available) => InSeq(existing_dates, d)
              /\ ~InSeq(history.dates, d)
              /\ d \notin DOMAIN history.pixel_counts
              /\ \A m \in MapNames : d \notin Range(LayerDates(layers[m])) )
  /\ [][ \A d \in Orphans :
           d \in Range(LedgerDates') => (force_rebuild /\ d \in Available)
       ]_vars

\* A completed run without force that classified as existing a date with a
\* cache file, added another date, and left the first out of the ledger and
\* of the maps.
C14_Witness ==
  /\ pc = "idle" /\ outcome = "done" /\ ~force_rebuild
  /\ \E d \in had_cache :
       /\ InSeq(existing_dates, d)
       /\ d \notin Range(LedgerDates)
       /\ \A m \in MapNames : d \notin Range(LayerDates(html_files[m].content))
  /\ LedgerDates # <<>>

\* A completed force-rebuild run that put in the ledger a date that had a
\* cache file while no ledger file lists it before the run's ledger write.
C14_WitnessForce ==
  /\ pc = "save_history" /\ force_rebuild
  /\ \E d \in Orphans : InSeq(history.dates, d) /\ d \in Available

====
